---- MODULE Spec2Model ----
(***************************************************************************)
(* Wire codec of one DNS resource record (simple-dns,                      *)
(* src/dns/resource_record.rs): parse, append_to_vec, len, match_qclass,   *)
(* match_qtype, equality and hash.                                         *)
(*                                                                         *)
(* Buffers are sequences of bytes (0..255).  Rust offsets are 0-based, so  *)
(* the byte at offset i of buf is buf[i + 1].  A u32 is kept as the pair   *)
(* of its 16-bit halves <<hi, lo>>, a u128 as eight 16-bit words.          *)
(* The collaborators Name, RData, CLASS, TYPE, QCLASS and QTYPE live in    *)
(* other files of the crate; they are modelled from their contracts.       *)
(***************************************************************************)
EXTENDS Integers, Sequences, FiniteSets, TLC

VARIABLES out, name_refs, encLog, data, rx, pres,
          mrec, mq, mkind, mres,
          ra, rb, idres

codecVars == <<out, name_refs, encLog, data, rx, pres>>
matchVars == <<mrec, mq, mkind, mres>>
identVars == <<ra, rb, idres>>
vars == <<out, name_refs, encLog, data, rx, pres,
          mrec, mq, mkind, mres, ra, rb, idres>>

(* ------------------------------ bounds --------------------------------- *)

\* Records serialized into one message.
MaxRecords == 2

(* ------------------------- byteorder::BigEndian ------------------------ *)

U16 == 65536

write_u16(w) == <<(w \div 256) % 256, w % 256>>

read_u16(buf, off) == buf[off + 1] * 256 + buf[off + 2]

write_u32(v) == write_u16(v[1]) \o write_u16(v[2])

read_u32(buf, off) == <<read_u16(buf, off), read_u16(buf, off + 2)>>

RECURSIVE write_words(_)
write_words(ws) ==
    IF ws = <<>> THEN <<>> ELSE write_u16(Head(ws)) \o write_words(Tail(ws))

read_words(buf, off, n) == [i \in 1..n |-> read_u16(buf, off + 2 * (i - 1))]

(* ------------------------- CLASS / QCLASS / TYPE / QTYPE --------------- *)

CLASS == {"IN", "CS", "CH", "HS"}

QCLASS == CLASS \cup {"ANY"}

\* `class as u16` and `qclass as u16`
ClassCode(c) ==
    CASE c = "IN" -> 1 [] c = "CS" -> 2 [] c = "CH" -> 3 [] c = "HS" -> 4
      [] c = "ANY" -> 255

\* TryFrom<u16> for CLASS
ClassTryFrom(code) ==
    IF \E c \in CLASS : ClassCode(c) = code
    THEN [ok |-> TRUE, val |-> CHOOSE c \in CLASS : ClassCode(c) = code]
    ELSE [ok |-> FALSE, val |-> "IN"]

KnownTypes == {"A", "NS", "CNAME", "NULL", "WKS", "TXT", "AAAA"}

QTypes == KnownTypes \cup {"AXFR", "ANY"}

\* `qtype as u16`, and the code of each known TYPE
TypeCode(t) ==
    CASE t = "A" -> 1 [] t = "NS" -> 2 [] t = "CNAME" -> 5 [] t = "NULL" -> 10
      [] t = "WKS" -> 11 [] t = "TXT" -> 16 [] t = "AAAA" -> 28
      [] t = "AXFR" -> 252 [] t = "ANY" -> 255

\* From<u16> for TYPE: a known variant, or Unknown(code)
TypeFrom(code) ==
    IF \E t \in KnownTypes : TypeCode(t) = code
    THEN [k |-> CHOOSE t \in KnownTypes : TypeCode(t) = code, c |-> 0]
    ELSE [k |-> "Unknown", c |-> code]

\* Into<u16> for TYPE
TypeInto(t) == IF t.k = "Unknown" THEN t.c ELSE TypeCode(t.k)

(* --------------------------------- Name -------------------------------- *)

RECURSIVE LabelsSize(_)
LabelsSize(ls) == IF ls = <<>> THEN 1 ELSE 1 + Len(Head(ls)) + LabelsSize(Tail(ls))

\* A name built from its labels reports its uncompressed encoded length.
NewName(ls) == [labels |-> ls, total_size |-> LabelsSize(ls)]

NoName == [labels |-> <<>>, total_size |-> 0]

NameLen(n) == n.total_size

NameEq(a, b) == a.labels = b.labels

NameHash(n) == n.labels

NameErr == [ok |-> FALSE, labels |-> <<>>, end |-> 0]

\* Walk the name at offset pos: labels up to the root byte, following
\* compression pointers.  A pointer must lead to an offset before `seg`, the
\* start of the run of labels it ends, so that every jump goes to an earlier
\* occurrence and the walk ends.  `end` is the offset after the bytes the name
\* occupies at its own position.
RECURSIVE NameWalk(_, _, _)
NameWalk(buf, pos, seg) ==
    IF pos >= Len(buf) THEN NameErr
    ELSE LET b == buf[pos + 1] IN
         IF b = 0 THEN [ok |-> TRUE, labels |-> <<>>, end |-> pos + 1]
         ELSE IF b >= 192 THEN
              IF pos + 2 > Len(buf) THEN NameErr
              ELSE LET target == (b - 192) * 256 + buf[pos + 2] IN
                   IF target >= seg THEN NameErr
                   ELSE LET r == NameWalk(buf, target, target) IN
                        IF r.ok THEN [ok |-> TRUE, labels |-> r.labels, end |-> pos + 2]
                        ELSE NameErr
         ELSE IF b >= 64 THEN NameErr
         ELSE IF pos + 1 + b > Len(buf) THEN NameErr
         ELSE LET r == NameWalk(buf, pos + 1 + b, seg) IN
              IF r.ok
              THEN [ok |-> TRUE,
                    labels |-> <<SubSeq(buf, pos + 2, pos + 1 + b)>> \o r.labels,
                    end |-> r.end]
              ELSE NameErr

\* Name::parse: a parsed name reports the bytes it occupies at its position.
NameParse(buf, pos) ==
    LET w == NameWalk(buf, pos, pos) IN
    IF w.ok THEN [ok |-> TRUE, val |-> [labels |-> w.labels, total_size |-> w.end - pos]]
    ELSE [ok |-> FALSE, val |-> NoName]

Pointer(off) == <<192 + (off \div 256), off % 256>>

Put(refs, key, off) ==
    [k \in DOMAIN refs \cup {key} |-> IF k = key THEN off ELSE refs[k]]

\* Name::append_to_vec: each suffix already in the dictionary is written as a
\* pointer to its first occurrence; a new suffix is entered with its offset.
RECURSIVE NameAppendFrom(_, _, _, _)
NameAppendFrom(ls, i, o, refs) ==
    IF i > Len(ls) THEN [out |-> Append(o, 0), refs |-> refs]
    ELSE LET suffix == SubSeq(ls, i, Len(ls)) IN
         IF suffix \in DOMAIN refs
         THEN [out |-> o \o Pointer(refs[suffix]), refs |-> refs]
         ELSE NameAppendFrom(ls, i + 1, (o \o <<Len(ls[i])>>) \o ls[i],
                             Put(refs, suffix, Len(o)))

NameAppend(n, o, refs) == NameAppendFrom(n.labels, 1, o, refs)

(* -------------------------------- RData -------------------------------- *)

MkRData(tag, code, address, bytes, name) ==
    [tag |-> tag, code |-> code, address |-> address, data |-> bytes, name |-> name]

RA(addr) == MkRData("A", 0, addr, <<>>, NoName)
RAAAA(addr) == MkRData("AAAA", 0, addr, <<>>, NoName)
RTXT(text) == MkRData("TXT", 0, <<>>, text, NoName)
RNULL(code, bytes) == MkRData("NULL", code, <<>>, bytes, NoName)
RCNAME(name) == MkRData("CNAME", 0, <<>>, <<>>, name)

NoRData == RNULL(0, <<>>)

\* RData::type_code
type_code(rd) == IF rd.tag = "NULL" THEN TypeFrom(rd.code) ELSE [k |-> rd.tag, c |-> 0]

\* RData::len
RDataLen(rd) ==
    CASE rd.tag = "A" -> 4
      [] rd.tag = "AAAA" -> 16
      [] rd.tag = "TXT" -> 1 + Len(rd.data)
      [] rd.tag = "CNAME" -> NameLen(rd.name)
      [] rd.tag = "NULL" -> Len(rd.data)

RDataEq(a, b) ==
    /\ a.tag = b.tag /\ a.code = b.code /\ a.address = b.address
    /\ a.data = b.data /\ NameEq(a.name, b.name)

RDataHash(rd) == <<rd.tag, rd.code, rd.address, rd.data, NameHash(rd.name)>>

\* RData::append_to_vec
RDataAppend(rd, o, refs) ==
    CASE rd.tag = "A" -> [out |-> o \o write_u32(rd.address), refs |-> refs]
      [] rd.tag = "AAAA" -> [out |-> o \o write_words(rd.address), refs |-> refs]
      [] rd.tag = "TXT" -> [out |-> (o \o <<Len(rd.data)>>) \o rd.data, refs |-> refs]
      [] rd.tag = "CNAME" -> NameAppend(rd.name, o, refs)
      [] rd.tag = "NULL" -> [out |-> o \o rd.data, refs |-> refs]

RDErr == [ok |-> FALSE, val |-> NoRData]

\* parse_rdata(buf, position, rdatatype): the decoder of the declared type
\* reads at position and may use every byte of buf, and no other.
parse_rdata(buf, position, rdatatype) ==
    CASE rdatatype.k = "A" ->
           IF position + 4 > Len(buf) THEN RDErr
           ELSE [ok |-> TRUE, val |-> RA(read_u32(buf, position))]
      [] rdatatype.k = "AAAA" ->
           IF position + 16 > Len(buf) THEN RDErr
           ELSE [ok |-> TRUE, val |-> RAAAA(read_words(buf, position, 8))]
      [] rdatatype.k = "TXT" ->
           IF position + 1 > Len(buf) THEN RDErr
           ELSE IF position + 1 + buf[position + 1] > Len(buf) THEN RDErr
           ELSE [ok |-> TRUE,
                 val |-> RTXT(SubSeq(buf, position + 2, position + 1 + buf[position + 1]))]
      [] rdatatype.k = "CNAME" ->
           LET n == NameParse(buf, position) IN
           IF n.ok THEN [ok |-> TRUE, val |-> RCNAME(n.val)] ELSE RDErr
      [] OTHER ->
           [ok |-> TRUE,
            val |-> RNULL(TypeInto(rdatatype), SubSeq(buf, position + 1, Len(buf)))]

(* ---------------------------- ResourceRecord --------------------------- *)

\* ResourceRecord::new
new(name, class, ttl, rdata) ==
    [name |-> name, class |-> class, ttl |-> ttl, rdata |-> rdata]

NoRec == new(NoName, "IN", <<0, 0>>, NoRData)

\* #[derive(PartialEq, Eq)]: every field is compared.
RecEq(a, b) ==
    /\ NameEq(a.name, b.name) /\ a.class = b.class
    /\ a.ttl = b.ttl /\ RDataEq(a.rdata, b.rdata)

hash_with_ttl(r) == <<NameHash(r.name), r.class, r.ttl, RDataHash(r.rdata)>>

\* impl Hash: what the record feeds to the hasher, in order.
hash(r) == <<NameHash(r.name), r.class, RDataHash(r.rdata)>>

match_qclass_exact(r, qclass) == ClassCode(r.class) = ClassCode(qclass)

match_qclass(r, qclass) ==
    qclass = "ANY" \/ ClassCode(r.class) = ClassCode(qclass)

match_qtype_exact(r, qtype) ==
    LET tc == type_code(r.rdata) IN
    CASE qtype = "ANY" -> TRUE
      [] OTHER -> TypeInto(tc) = TypeCode(qtype)

match_qtype(r, qtype) ==
    LET tc == type_code(r.rdata) IN
    CASE qtype \in {"A", "AAAA"} -> tc.k = "A" \/ tc.k = "AAAA"
      [] qtype = "ANY" -> TRUE
      [] OTHER -> TypeInto(tc) = TypeCode(qtype)

\* DnsPacketContent::len
len(r) == NameLen(r.name) + RDataLen(r.rdata) + 10

NoCall == [made |-> FALSE, buf |-> <<>>, pos |-> 0, type |-> TypeFrom(0), ok |-> FALSE]

Panic(p) == [status |-> "panic", err |-> "", rec |-> NoRec, pos |-> p, call |-> NoCall]

Error(p, e, c) == [status |-> "err", err |-> e, rec |-> NoRec, pos |-> p, call |-> c]

Ok(p, r, c) == [status |-> "ok", err |-> "", rec |-> r, pos |-> p, call |-> c]

NotParsed == [status |-> "none", err |-> "", rec |-> NoRec, pos |-> 0, call |-> NoCall]

WholeBuffer(buf, end) == buf

\* &data[..position + rdatalen]
RDataPrefix(buf, end) == SubSeq(buf, 1, end)

\* The tail of parse, from the TTL read on, with the class already converted.
ParseTail(buf, p, name, offset, rdatatype, class) ==
    IF offset + 8 > Len(buf) THEN Panic(p)
    ELSE IF offset + 10 > Len(buf) THEN Panic(p)
    ELSE LET ttl == read_u32(buf, offset + 4)
             rdatalen == read_u16(buf, offset + 8)
             position == offset + 10
         IN  IF position + rdatalen > Len(buf) THEN Panic(p)
             ELSE LET prefix == RDataPrefix(buf, position + rdatalen)
                      rd == parse_rdata(prefix, position, rdatatype)
                      c == [made |-> TRUE, buf |-> prefix, pos |-> position,
                            type |-> rdatatype, ok |-> rd.ok]
                  IN  IF ~rd.ok THEN Error(p, "rdata", c)
                      ELSE Ok(p, new(name, class, ttl, rd.val), c)

parse_swallow(buf, p) ==
    LET nm == NameParse(buf, p) IN
    IF ~nm.ok THEN Error(p, "name", NoCall)
    ELSE LET name == nm.val
             offset == p + NameLen(name)
         IN  IF offset + 2 > Len(buf) THEN Panic(p)
             ELSE IF offset + 4 > Len(buf) THEN Panic(p)
             ELSE ParseTail(buf, p, name, offset, TypeFrom(read_u16(buf, offset)),
                            ClassTryFrom(read_u16(buf, offset + 2)).val)

\* DnsPacketContent::parse.  A slice whose end lies beyond the buffer panics.
parse(buf, p) ==
    LET nm == NameParse(buf, p) IN
    IF ~nm.ok THEN Error(p, "name", NoCall)
    ELSE LET name == nm.val
             offset == p + NameLen(name)
         IN  IF offset + 2 > Len(buf) THEN Panic(p)
             ELSE LET rdatatype == TypeFrom(read_u16(buf, offset)) IN
                  IF offset + 4 > Len(buf) THEN Panic(p)
                  ELSE LET class == ClassTryFrom(read_u16(buf, offset + 2)) IN
                       IF ~class.ok THEN Error(p, "class", NoCall)
                       ELSE ParseTail(buf, p, name, offset, rdatatype, class.val)

\* DnsPacketContent::append_to_vec
append_to_vec(r, o, refs) ==
    LET n == NameAppend(r.name, o, refs)
        buf == ((write_u16(TypeInto(type_code(r.rdata)))
                 \o write_u16(ClassCode(r.class)))
                 \o write_u32(r.ttl))
                 \o write_u16(RDataLen(r.rdata) % U16)
    IN  RDataAppend(r.rdata, n.out \o buf, n.refs)

(* ------------------------------- inputs -------------------------------- *)

La == <<97>>
Lb == <<98>>

Ttl10 == <<0, 10>>
Ttl50 == <<0, 50>>

\* Records a message is assembled from: every RData variant, names sharing
\* suffixes, and a payload name equal to the owner name.
Records ==
    { new(NewName(<<La, Lb>>), "IN", Ttl10, RA(<<65535, 65535>>)),
      new(NewName(<<Lb>>), "IN", Ttl10, RTXT(<<116>>)),
      new(NewName(<<La>>), "CH", <<1, 2>>, RNULL(0, <<255, 255>>)),
      new(NewName(<<La>>), "IN", Ttl10, RCNAME(NewName(<<La>>))),
      new(NewName(<<>>), "HS", <<0, 0>>, RCNAME(NewName(<<La, Lb>>))),
      new(NewName(<<Lb>>), "CS", Ttl50, RAAAA(<<0, 0, 0, 0, 0, 0, 0, 1>>)) }

\* Values a damaged byte can take.
CorruptBytes == {0, 6, 9}

MatchRDatas ==
    { RA(<<0, 0>>), RAAAA(<<0, 0, 0, 0, 0, 0, 0, 0>>), RTXT(<<116>>),
      RCNAME(NewName(<<La>>)), RNULL(0, <<255>>), RNULL(11, <<255>>),
      RNULL(252, <<>>) }

MatchRecords ==
    { new(NewName(<<La>>), c, Ttl10, rd) : c \in CLASS, rd \in MatchRDatas }

IdRecords ==
    { new(NewName(n), c, t, rd) :
        n \in {<<La>>, <<Lb>>}, c \in {"IN", "CH"}, t \in {Ttl10, Ttl50},
        rd \in {RTXT(<<116>>), RA(<<0, 1>>)} }

NoId == [done |-> FALSE, eq |-> FALSE, ha |-> <<>>, hb |-> <<>>]

(* ---------------------------- message codec ---------------------------- *)

CodecIdle ==
    /\ out = <<>> /\ name_refs = <<>> /\ encLog = <<>>
    /\ data = <<>> /\ rx = "none" /\ pres = NotParsed

MatchIdle == mrec = NoRec /\ mq = "ANY" /\ mkind = "none" /\ mres = FALSE

IdentIdle == ra = NoRec /\ rb = NoRec /\ idres = NoId

Init == CodecIdle /\ MatchIdle /\ IdentIdle

\* One record is serialized into the message, sharing the dictionary.
Encode(r) ==
    /\ rx = "none"
    /\ Len(encLog) < MaxRecords
    /\ LET n == NameAppend(r.name, out, name_refs)
           res == append_to_vec(r, out, name_refs)
       IN  /\ out' = res.out
           /\ name_refs' = res.refs
           /\ encLog' = Append(encLog, [rec |-> r, start |-> Len(out),
                                        hdr |-> Len(n.out), end |-> Len(res.out)])
    /\ UNCHANGED <<data, rx, pres, matchVars, identVars>>

\* The message arrives whole.
Deliver ==
    /\ rx = "none" /\ encLog # <<>>
    /\ data' = out /\ rx' = "whole"
    /\ UNCHANGED <<out, name_refs, encLog, pres, matchVars, identVars>>

\* The message arrives cut after n bytes.
Truncate(n) ==
    /\ rx = "none" /\ encLog # <<>>
    /\ data' = SubSeq(out, 1, n) /\ rx' = "truncated"
    /\ UNCHANGED <<out, name_refs, encLog, pres, matchVars, identVars>>

\* The message arrives with one byte changed.
Corrupt(i, v) ==
    /\ rx = "none" /\ encLog # <<>>
    /\ out[i] # v
    /\ data' = [out EXCEPT ![i] = v] /\ rx' = "corrupted"
    /\ UNCHANGED <<out, name_refs, encLog, pres, matchVars, identVars>>

\* The assembler decodes the first record of the buffer.
ParseFirst ==
    /\ rx # "none" /\ pres.status = "none"
    /\ pres' = parse(data, 0)
    /\ UNCHANGED <<out, name_refs, encLog, data, rx, matchVars, identVars>>

\* The assembler advances by the decoded record's len() and decodes again.
ParseNext ==
    /\ pres.status = "ok"
    /\ pres.pos + len(pres.rec) < Len(data)
    /\ pres' = parse(data, pres.pos + len(pres.rec))
    /\ UNCHANGED <<out, name_refs, encLog, data, rx, matchVars, identVars>>

Next ==
    \/ \E r \in Records : Encode(r)
    \/ Deliver
    \/ \E n \in 0..(Len(out) - 1) : Truncate(n)
    \/ \E i \in 1..Len(out), v \in CorruptBytes : Corrupt(i, v)
    \/ ParseFirst
    \/ ParseNext

Spec == Init /\ [][Next]_vars

(* --------------------------- query matching ---------------------------- *)

InitMatch ==
    /\ CodecIdle /\ IdentIdle
    /\ mrec \in MatchRecords /\ mq = "ANY" /\ mkind = "none" /\ mres = FALSE

MatchQclass(q) ==
    /\ mkind' = "qclass" /\ mq' = q /\ mres' = match_qclass(mrec, q)
    /\ UNCHANGED <<mrec, codecVars, identVars>>

MatchQtype(q) ==
    /\ mkind' = "qtype" /\ mq' = q /\ mres' = match_qtype(mrec, q)
    /\ UNCHANGED <<mrec, codecVars, identVars>>

\* rr.rdata = ...: the payload, and with it the type, is replaced.
SetRData(rd) ==
    /\ mrec.rdata # rd
    /\ mrec' = [mrec EXCEPT !.rdata = rd]
    /\ mkind' = "none" /\ mq' = "ANY" /\ mres' = FALSE
    /\ UNCHANGED <<codecVars, identVars>>

NextMatch ==
    \/ \E q \in QCLASS : MatchQclass(q)
    \/ \E q \in QTypes : MatchQtype(q)
    \/ \E rd \in MatchRDatas : SetRData(rd)

SpecMatch == InitMatch /\ [][NextMatch]_vars

(* ------------------------------ identity ------------------------------- *)

InitIdentity ==
    /\ CodecIdle /\ MatchIdle
    /\ ra \in IdRecords /\ rb \in IdRecords /\ idres = NoId

\* b.ttl = t
SetTtl(t) ==
    /\ rb.ttl # t
    /\ rb' = [rb EXCEPT !.ttl = t] /\ idres' = NoId
    /\ UNCHANGED <<ra, codecVars, matchVars>>

\* a == b, get_hash(&a), get_hash(&b)
Compare ==
    /\ ~idres.done
    /\ idres' = [done |-> TRUE, eq |-> RecEq(ra, rb), ha |-> hash(ra), hb |-> hash(rb)]
    /\ UNCHANGED <<ra, rb, codecVars, matchVars>>

NextIdentity ==
    \/ \E t \in {Ttl10, Ttl50} : SetTtl(t)
    \/ Compare

SpecIdentity == InitIdentity /\ [][NextIdentity]_vars

(* ------------------------------ properties ----------------------------- *)

\* Offset of the fixed header of the record decoded last.
HeaderAt == pres.pos + NameLen(NameParse(data, pres.pos).val)

\* The buffer ends inside the fixed header of the record at pres.pos, or
\* holds fewer bytes after the header than its RDLENGTH declares.
TruncatedRecord ==
    /\ NameParse(data, pres.pos).ok
    /\ \/ HeaderAt + 10 > Len(data)
       \/ HeaderAt + 10 + read_u16(data, HeaderAt + 8) > Len(data)

\* C1: decoding a buffer that ends inside the 10-byte fixed header, or that
\* holds fewer than RDLENGTH bytes after it, returns an error and never panics.
C1_TruncatedIsError ==
    (pres.status # "none" /\ TruncatedRecord) => pres.status = "err"

RECURSIVE SumLen(_)
SumLen(log) == IF log = <<>> THEN 0 ELSE len(Head(log).rec) + SumLen(Tail(log))

\* C2: every append_to_vec grows the output by exactly len() bytes, whatever
\* the dictionary holds, so the buffer length is the sum of the reported lengths.
C2_LengthConsistency ==
    /\ \A i \in DOMAIN encLog : encLog[i].end - encLog[i].start = len(encLog[i].rec)
    /\ Len(out) = SumLen(encLog)

\* C3: a record encoded into an empty buffer with an empty dictionary and
\* decoded at offset 0 comes back equal in name, class, ttl and rdata.
C3_RoundTrip ==
    (Len(encLog) = 1 /\ rx = "whole" /\ pres.status # "none" /\ pres.pos = 0)
        => (pres.status = "ok" /\ RecEq(pres.rec, encLog[1].rec))

SameIdentity(a, b) ==
    NameEq(a.name, b.name) /\ a.class = b.class /\ RDataEq(a.rdata, b.rdata)

\* C4: the hash depends only on (name, class, rdata) while equality also
\* compares ttl: records differing only in ttl are unequal and hash alike,
\* and equal records hash alike.
C4_Identity ==
    idres.done =>
        /\ SameIdentity(ra, rb) => idres.ha = idres.hb
        /\ (SameIdentity(ra, rb) /\ ra.ttl # rb.ttl) => ~idres.eq
        /\ (SameIdentity(ra, rb) /\ ra.ttl = rb.ttl) => idres.eq
        /\ idres.eq => idres.ha = idres.hb

C4_Witness ==
    idres.done /\ SameIdentity(ra, rb) /\ ra.ttl # rb.ttl
               /\ ~idres.eq /\ idres.ha = idres.hb

\* C5: match_qtype is true for every type when the query is ANY; for a query
\* A or AAAA it is true iff the record's type is A or AAAA; for any other
\* query iff the type code equals the query code.  So A and AAAA records match
\* exactly A, AAAA and ANY, and a TXT record exactly TXT and ANY.
C5_MatchQtype ==
    mkind = "qtype" =>
        LET t == TypeInto(type_code(mrec.rdata)) IN
        /\ mq = "ANY" => mres
        /\ mq \in {"A", "AAAA"} => (mres <=> t \in {1, 28})
        /\ mq \notin {"A", "AAAA", "ANY"} => (mres <=> t = TypeCode(mq))
        /\ mrec.rdata.tag \in {"A", "AAAA"} => (mres <=> mq \in {"A", "AAAA", "ANY"})
        /\ mrec.rdata.tag = "TXT" => (mres <=> mq \in {"TXT", "ANY"})

C5_Witness ==
    mkind = "qtype" /\ mq = "AAAA" /\ mrec.rdata.tag = "A" /\ mres

\* C6: match_qclass(ANY) is true for every record, and for any other query
\* class it is true iff the class code equals the record's class code.
C6_MatchQclass ==
    mkind = "qclass" =>
        /\ mq = "ANY" => mres
        /\ mq # "ANY" => (mres <=> ClassCode(mq) = ClassCode(mrec.class))

C6_Witness ==
    mkind = "qclass" /\ mq = "ANY" /\ mrec.class = "CH" /\ mres

\* C7: a class code outside the CLASS enumeration makes parse return an error
\* and no record, and an RDATA decoding failure is returned by parse as well.
C7_ErrorsPropagate ==
    (pres.status # "none" /\ NameParse(data, pres.pos).ok) =>
        /\ (/\ HeaderAt + 4 <= Len(data)
            /\ ~ClassTryFrom(read_u16(data, HeaderAt + 2)).ok)
               => (pres.status = "err" /\ pres.err = "class" /\ pres.rec = NoRec)
        /\ (/\ HeaderAt + 10 <= Len(data)
            /\ ClassTryFrom(read_u16(data, HeaderAt + 2)).ok
            /\ HeaderAt + 10 + read_u16(data, HeaderAt + 8) <= Len(data)
            /\ ~parse_rdata(SubSeq(data, 1, HeaderAt + 10 + read_u16(data, HeaderAt + 8)),
                            HeaderAt + 10, TypeFrom(read_u16(data, HeaderAt))).ok)
               => (pres.status = "err" /\ pres.err = "rdata" /\ pres.rec = NoRec)

C7_Witness ==
    /\ pres.status = "err" /\ pres.err = "class"
    /\ ~ClassTryFrom(read_u16(data, HeaderAt + 2)).ok

\* C8: the header written by append_to_vec carries, big-endian, the type code,
\* the class code, the ttl and, as RDLENGTH, rdata.len(), which is also the
\* number of RDATA bytes appended after the header.
C8_HeaderFields ==
    \A i \in DOMAIN encLog :
        LET e == encLog[i] IN
        /\ read_u16(out, e.hdr) = TypeInto(type_code(e.rec.rdata))
        /\ read_u16(out, e.hdr + 2) = ClassCode(e.rec.class)
        /\ read_u32(out, e.hdr + 4) = e.rec.ttl
        /\ read_u16(out, e.hdr + 8) = RDataLen(e.rec.rdata)
        /\ read_u16(out, e.hdr + 8) = e.end - (e.hdr + 10)

\* End of the RDATA of the record decoded last, as its RDLENGTH declares it.
RDataEnd == HeaderAt + 10 + read_u16(data, HeaderAt + 8)

\* C9: the RDATA decoder is handed the buffer prefix up to rdata_end, the
\* offset rdata_start and the declared type code; the outcome of parse does
\* not depend on any byte at rdata_end or beyond.
C9_DecoderSeesPrefix ==
    pres.call.made =>
        /\ RDataEnd <= Len(data)
        /\ pres.call.buf = SubSeq(data, 1, RDataEnd)
        /\ pres.call.pos = HeaderAt + 10
        /\ pres.call.type = TypeFrom(read_u16(data, HeaderAt))
        /\ pres = parse(SubSeq(data, 1, RDataEnd), pres.pos)

C9_Witness ==
    /\ pres.call.made /\ pres.status = "ok"
    /\ Len(pres.call.buf) < Len(data)
    /\ pres.call.buf = SubSeq(data, 1, RDataEnd)

\* C10: a record decoded at offset p ends where its RDATA ends: p + len() is
\* rdata_end, the parsed rdata's len() being the declared RDLENGTH.
C10_LenReachesRDataEnd ==
    pres.status = "ok" =>
        /\ RDataLen(pres.rec.rdata) = read_u16(data, HeaderAt + 8)
        /\ pres.pos + len(pres.rec) = RDataEnd

====
